---------------------------- MODULE Spec2Model ----------------------------
(***************************************************************************)
(* evileye (src/src/main.rs): scan a directory tree for image files, run   *)
(* OCR on each image in its own tokio task, and flag the images whose text *)
(* matches one of four secret patterns.                                    *)
(*                                                                         *)
(* Strings are sequences of one-character strings, so that length,         *)
(* lower-casing, joining and pattern matching are computed, not assumed.   *)
(***************************************************************************)
EXTENDS Integers, Sequences, FiniteSets, TLC

VARIABLES
    tree,       \* the directory tree under the root: a sequence of nodes
    mainpc,     \* position of main() (and of find_images_in_directory_concurrent)
    entries,    \* main.rs:64 the walk's regular-file entries (node indices)
    nspawned,   \* main.rs:75 number of entries the spawn loop has taken
    fpc,        \* per-entry filter task: "ready" | "sending" | "done"
    chan,       \* main.rs:73 paths buffered in the mpsc channel
    txMain,     \* main.rs:73/90 the original sender is alive
    images,     \* main.rs:61 paths received so far; found_images once returned
    stdout,     \* everything printed, in order
    tasks,      \* per-image tokio task: [path, pc, result]
    results,    \* main.rs:180 what try_join_all returned
    origin,     \* history: origin[k] is the task that results[k] came from
    ri,         \* main.rs:181 number of results the report loop has taken
    fatal,      \* the error main() returned, or "none"
    completed,  \* history: image-task indices in the order they completed
    emitted,    \* history: the tasks whose block was printed, in print order
    harness     \* a single call of a pure function: [fn, arg, ret]

vars == <<tree, mainpc, entries, nspawned, fpc, chan, txMain, images, stdout,
          tasks, results, origin, ri, fatal, completed, emitted, harness>>

(***************************************************************************)
(* Bounds of the model.                                                    *)
(***************************************************************************)
\* number of tokio worker threads (the machine's cores)
NumWorkers == 2
\* most image files in a tree of a whole run
MaxImages == 3
\* most nodes under the root in a tree given to the locator alone
MaxNodes == 3
\* most recognition results of one image given to the line filter alone
MaxLines == 3
\* most fragments a text given to the secret detector alone is built from
MaxFrags == 3

(***************************************************************************)
(* Characters and strings.                                                 *)
(***************************************************************************)
UpperSeq == <<"A","B","C","D","E","F","G","H","I","J","K","L","M",
              "N","O","P","Q","R","S","T","U","V","W","X","Y","Z">>
LowerSeq == <<"a","b","c","d","e","f","g","h","i","j","k","l","m",
              "n","o","p","q","r","s","t","u","v","w","x","y","z">>
Upper == {UpperSeq[i] : i \in 1..26}
Lower == {LowerSeq[i] : i \in 1..26}
Digit == {"0","1","2","3","4","5","6","7","8","9"}
\* Unicode White_Space as far as the model's texts use it
Space == {" ", "\n", "\t"}
\* characters outside ASCII, named by code point: U+00E9 is e-acute and U+017F
\* is the long s (two bytes each in UTF-8), U+20AC is the euro sign and
\* U+212A the Kelvin sign (three bytes each)
TwoByte == {"U+00E9", "U+017F"}
ThreeByte == {"U+20AC", "U+212A"}

\* char::to_lowercase, str::to_lowercase
ToLowerChar(c) ==
    IF c \in Upper THEN LowerSeq[CHOOSE i \in 1..26 : UpperSeq[i] = c] ELSE c
ToLower(s) == [i \in 1..Len(s) |-> ToLowerChar(s[i])]

\* number of bytes of one char in UTF-8
Utf8Len(c) == IF c \in ThreeByte THEN 3 ELSE IF c \in TwoByte THEN 2 ELSE 1

RECURSIVE SumBytes(_, _)
SumBytes(s, i) == IF i > Len(s) THEN 0 ELSE Utf8Len(s[i]) + SumBytes(s, i + 1)
\* String::len: the length in bytes
ByteLen(s) == SumBytes(s, 1)

RECURSIVE Concat(_)
\* concatenation of a sequence of strings
Concat(ss) == IF ss = <<>> THEN <<>> ELSE Head(ss) \o Concat(Tail(ss))

RECURSIVE JoinFrom(_, _, _)
JoinFrom(ss, sep, i) ==
    IF i > Len(ss) THEN <<>>
    ELSE IF i = Len(ss) THEN ss[i]
    ELSE ss[i] \o sep \o JoinFrom(ss, sep, i + 1)
\* [String]::join
Join(ss, sep) == JoinFrom(ss, sep, 1)

(***************************************************************************)
(* The directory tree.  Node 0 is the root directory; node i >= 1 is       *)
(* tree[i] = [parent, kind, ext, denied], its parent a directory before    *)
(* it.  A path is the index of its node.                                   *)
(*   kind "file"     a regular file                                        *)
(*        "dir"      a directory the walk can list                         *)
(*        "baddir"   a directory the walk cannot list (permission denied)  *)
(*        "linkdir"  a symbolic link to a directory (not followed)         *)
(*        "broken"   a symbolic link to nothing                            *)
(*   ext  Path::extension of the name: Some(ext), or NoExt                 *)
(*   denied  the file's content cannot be read (mode 000): its name is     *)
(*        still listed and its metadata can still be read                  *)
(***************************************************************************)
\* Option<T>: None is the empty sequence, Some(x) the sequence of x alone
None == <<>>
Some(x) == <<x>>
IsSome(o) == o # None
Unwrap(o) == o[1]

NoExt == None
Root == 0

Png == <<"p","n","g">>
TiffUpper == <<"T","I","F","F">>
JpegMixed == <<"J","p","e","G">>
Txt == <<"t","x","t">>

Shape(kind, ext, denied) == [kind |-> kind, ext |-> ext, denied |-> denied]

\* the shapes of the trees given to the locator alone
LocatorShapes ==
    { Shape("file", Some(Png), FALSE), Shape("file", Some(TiffUpper), FALSE),
      Shape("file", Some(Txt), FALSE), Shape("file", NoExt, FALSE),
      Shape("file", Some(Png), TRUE),
      Shape("dir", Some(Png), FALSE), Shape("baddir", NoExt, FALSE),
      Shape("linkdir", Some(Png), FALSE), Shape("broken", Some(JpegMixed), FALSE) }

\* the shapes of the trees of a whole run
RunShapes == { Shape("file", Some(Png), FALSE), Shape("file", Some(Txt), FALSE) }

Node(parent, shape) ==
    [parent |-> parent, kind |-> shape.kind, ext |-> shape.ext,
     denied |-> shape.denied]

\* every tree of n nodes: each node's parent is the root or a listable
\* directory before it
RECURSIVE TreesOf(_, _, _)
TreesOf(n, shapes, deep) ==
    IF n = 0 THEN { <<>> }
    ELSE { Append(t, Node(p, sh)) :
             t \in TreesOf(n - 1, shapes, deep), sh \in shapes,
             p \in IF deep THEN 0..(n - 1) ELSE {Root} } 

WellFormed(t) ==
    \A i \in 1..Len(t) : t[i].parent = Root \/ t[t[i].parent].kind = "dir"

Trees(maxn, shapes, deep) ==
    UNION { { t \in TreesOf(n, shapes, deep) : WellFormed(t) } : n \in 0..maxn }

LocatorTrees == Trees(MaxNodes, LocatorShapes, TRUE)
\* the trees of a whole run: flat, MaxImages files at most
RunTrees == Trees(MaxImages, RunShapes, FALSE)

(***************************************************************************)
(* walkdir::WalkDir::new(dir).into_iter(): the root, then depth first each *)
(* directory's entries; a directory that cannot be listed yields itself    *)
(* and then an error.                                                      *)
(***************************************************************************)
Children(t, p) == { c \in 1..Len(t) : t[c].parent = p }

RECURSIVE Visit(_, _)
RECURSIVE VisitAll(_, _)
Visit(t, p) ==
    <<[ok |-> TRUE, node |-> p]>> \o
    ( IF p = Root \/ t[p].kind = "dir" THEN VisitAll(t, Children(t, p))
      ELSE IF t[p].kind = "baddir" THEN <<[ok |-> FALSE, node |-> p]>>
      ELSE <<>> )
VisitAll(t, cs) ==
    IF cs = {} THEN <<>>
    ELSE LET c == CHOOSE x \in cs : \A y \in cs : x <= y
         IN  Visit(t, c) \o VisitAll(t, cs \ {c})

WalkDir(t) == Visit(t, Root)

\* Path::is_file: the metadata can be read and says regular file.  Read
\* permission on the file itself is not consulted.
is_file(t, p) == p # Root /\ t[p].kind = "file"

\* main.rs:64-70  filter_map(|e| e.ok()).filter(|e| e.path().is_file())
WalkEntries(t) ==
    LET items == WalkDir(t)
        kept  == SelectSeq(items, LAMBDA e : e.ok /\ is_file(t, e.node))
    IN  [k \in 1..Len(kept) |-> kept[k].node]

\* main.rs:57-60
image_extensions ==
    { <<"j","p","g">>, <<"j","p","e","g">>, <<"p","n","g">>,
      <<"g","i","f">>, <<"b","m","p">>, <<"t","i","f","f">> }

\* main.rs:80-81  the entry's extension, lower-cased, is an image extension
HasImageExtension(t, p) ==
    IsSome(t[p].ext) /\ ToLower(Unwrap(t[p].ext)) \in image_extensions

(***************************************************************************)
(* detect_secrets (main.rs:98-121).  The four patterns are matched as the  *)
(* regex crate matches them: leftmost, greedy, case folding by Unicode     *)
(* simple folding ((?i)s also matches the long s U+017F, (?i)k the Kelvin  *)
(* sign U+212A).                                                           *)
(***************************************************************************)
\* [0-9A-Z]
InUpperDigit(c) == c \in Digit \cup Upper
\* [a-zA-Z0-9@]
InNpmClass(c) == c \in Lower \cup Upper \cup Digit \cup {"@"}
\* \s ; \S is its complement
InSpace(c) == c \in Space

InClass(c, cls) ==
    CASE cls = "s" -> InSpace(c)
      [] cls = "S" -> ~InSpace(c)
      [] cls = "npm" -> InNpmClass(c)

\* (?i)l for a lower-case letter l
CaseFoldEq(c, l) ==
    \/ ToLowerChar(c) = l
    \/ l = "s" /\ c = "U+017F"
    \/ l = "k" /\ c = "U+212A"

\* the literal lit matches data at i, case-insensitively when ci
LitAt(data, i, lit, ci) ==
    /\ i + Len(lit) - 1 <= Len(data)
    /\ \A k \in 1..Len(lit) :
          IF ci THEN CaseFoldEq(data[i + k - 1], lit[k])
                ELSE data[i + k - 1] = lit[k]

RECURSIVE SkipClass(_, _, _)
\* the first index from i on whose character is not in cls (greedy cls*)
SkipClass(data, i, cls) ==
    IF i <= Len(data) /\ InClass(data[i], cls)
    THEN SkipClass(data, i + 1, cls) ELSE i

Akia == <<"A","K","I","A">>
TokenLit == <<"t","o","k","e","n">>
PasswordLit == <<"p","a","s","s","w","o","r","d">>
NpmLit == <<"n","p","m","_">>

\* main.rs:101  AKIA[0-9A-Z]{16}: the last index of the match at i, or 0
MatchAkia(data, i) ==
    IF /\ LitAt(data, i, Akia, FALSE)
       /\ i + 19 <= Len(data)
       /\ \A k \in 4..19 : InUpperDigit(data[i + k])
    THEN i + 19 ELSE 0

\* main.rs:102-103  (?i)lit\s*[:=]\s*\S+
MatchAssign(data, i, lit) ==
    IF ~LitAt(data, i, lit, TRUE) THEN 0
    ELSE LET j == SkipClass(data, i + Len(lit), "s")
         IN  IF j > Len(data) \/ data[j] \notin {":", "="} THEN 0
             ELSE LET k == SkipClass(data, j + 1, "s")
                  IN  IF k > Len(data) THEN 0
                      ELSE SkipClass(data, k, "S") - 1

\* main.rs:104  npm_[a-zA-Z0-9@]+
MatchNpm(data, i) ==
    IF ~LitAt(data, i, NpmLit, FALSE) THEN 0
    ELSE LET e == SkipClass(data, i + 4, "npm") - 1
         IN  IF e >= i + 4 THEN e ELSE 0

\* main.rs:100-105  the patterns, in order
NumPatterns == 4
MatchEnd(p, data, i) ==
    CASE p = 1 -> MatchAkia(data, i)
      [] p = 2 -> MatchAssign(data, i, TokenLit)
      [] p = 3 -> MatchAssign(data, i, PasswordLit)
      [] p = 4 -> MatchNpm(data, i)

RECURSIVE captures_iter(_, _, _)
\* main.rs:110  the non-overlapping matches of pattern p from index i on,
\* leftmost first, as the matched strings
captures_iter(p, data, i) ==
    IF i > Len(data) THEN <<>>
    ELSE LET e == MatchEnd(p, data, i)
         IN  IF e = 0 THEN captures_iter(p, data, i + 1)
             ELSE <<SubSeq(data, i, e)>> \o captures_iter(p, data, e + 1)

\* SkimScoreConfig::default().score_match of SkimMatcherV2::default()
ScoreMatch == 16
\* main.rs:113
Threshold == 70

\* main.rs:113  matcher.fuzzy_match(matched_str, matched_str): the choice and
\* the pattern are the same string, so every character is matched in place
\* and scores score_match; the matcher's bonuses (word start, consecutive
\* characters) are never negative and are left out, so this is the least
\* score the matcher can give.  The empty pattern scores 0.
fuzzy_match_self(m) == Some(ScoreMatch * Len(m))

\* Option::unwrap_or
unwrap_or(o, d) == IF IsSome(o) THEN Unwrap(o) ELSE d

\* mutant of PassesThreshold: the threshold on a scale about ten times finer
PassesThresholdStrict(m) == unwrap_or(fuzzy_match_self(m), 0) > 10 * Threshold

\* main.rs:113
PassesThreshold(m) == unwrap_or(fuzzy_match_self(m), 0) > Threshold

\* main.rs:109-120
detect_secrets(data) ==
    \E p \in 1..NumPatterns :
        LET caps == captures_iter(p, data, 1)
        IN  \E k \in 1..Len(caps) : PassesThreshold(caps[k])

(***************************************************************************)
(* The line filter of process_image_with_ocr (main.rs:136-145).            *)
(***************************************************************************)
RECURSIVE flatten(_)
\* Iterator::flatten over Option: the Some values, in order
flatten(opts) ==
    IF opts = <<>> THEN <<>>
    ELSE (IF IsSome(Head(opts)) THEN <<Unwrap(Head(opts))>> ELSE <<>>)
         \o flatten(Tail(opts))

\* main.rs:139  l.to_string().len() > 1: the length is in bytes
KeepLine(l) == ByteLen(l) > 1

\* main.rs:136-141
FilterLines(line_texts) == SelectSeq(flatten(line_texts), KeepLine)

Newline == <<"\n">>
\* main.rs:145
TextOf(line_texts) == Join(FilterLines(line_texts), Newline)

(***************************************************************************)
(* Values of the run.                                                      *)
(***************************************************************************)
\* main.rs:19-23
Img(path, text, has_secrets) ==
    [path |-> path, text |-> text, has_secrets |-> has_secrets]
NoImg == Img(Root, <<>>, FALSE)

\* what a JoinHandle of an image task resolves to: Ok(Ok(img)), Ok(Err(e)),
\* or Err(JoinError) when the task panicked; Pending until then.  The error
\* e is the error of the call that failed; no path goes into it.
Pending == [tag |-> "Pending", img |-> NoImg, error |-> "none"]
OkOf(img) == [tag |-> "Ok", img |-> img, error |-> "none"]
ErrOf(e) == [tag |-> "Err", img |-> NoImg, error |-> e]
JoinError == [tag |-> "JoinError", img |-> NoImg, error |-> "panic"]

\* the lines printed
RunningLine == [kind |-> "Running"]
CountLine(n) == [kind |-> "Count", n |-> n]
ScanningLine(path) == [kind |-> "Scanning", path |-> path]
\* main.rs:185-189
SuccessBlock(img) ==
    [kind |-> "Success", path |-> img.path, text |-> img.text,
     has_secrets |-> img.has_secrets]
\* main.rs:191-193  the Debug form of Err(e)
FailureBlock(e) == [kind |-> "Failure", error |-> e]

\* the recognition results an image of a whole run can give
Str_a == <<"a">>
Str_x == <<"x">>
HelloWorld == <<"H","e","l","l","o"," ","w","o","r","l","d">>
ConfidentialData ==
    <<"C","o","n","f","i","d","e","n","t","i","a","l"," ","d","a","t","a">>
TokenLine == <<"t","o","k","e","n","=","x","1">>
RunLineResults ==
    { <<>>,
      <<Some(Str_a), Some(TokenLine), None>>,
      <<Some(Str_a), Some(HelloWorld), Some(Str_x), Some(ConfidentialData)>> }

Idle == [fn |-> "none", arg |-> <<>>, ret |-> None]

\* the image tasks a worker thread is running: process_image_with_ocr has
\* no await, so a task keeps its worker from its first poll to its end
\* a task whose call never returns ("hung") keeps its worker for ever
RunningPcs == {"decode", "prepare", "detect", "group", "recognize", "hung"}
RunningImages == { i \in 1..Len(tasks) : tasks[i].pc \in RunningPcs }
RunningFilters == { k \in 1..Len(fpc) : fpc[k] = "sending" }

\* the image tasks inside a call that never returns
HungTasks == { i \in 1..Len(tasks) : tasks[i].pc = "hung" }

\* mutant of WorkerFree: a call that never returns holds the whole pool
WorkerFreeNoneHung ==
    /\ HungTasks = {}
    /\ Cardinality(RunningImages) + Cardinality(RunningFilters) < NumWorkers

\* main.rs:150  #[tokio::main]: spawned tasks run on NumWorkers worker
\* threads; main itself runs on the thread that called block_on
WorkerFree == Cardinality(RunningImages) + Cardinality(RunningFilters) < NumWorkers

\* main() has ended: Ok(()), an Err, or a panic
Ended == mainpc \in {"done", "fatal", "panicked"}

(***************************************************************************)
(* Initial states.                                                         *)
(***************************************************************************)
InitWith(trees, pc, h) ==
    /\ tree \in trees
    /\ mainpc = pc
    /\ entries = <<>>
    /\ nspawned = 0
    /\ fpc = <<>>
    /\ chan = <<>>
    /\ txMain = FALSE
    /\ images = <<>>
    /\ stdout = <<>>
    /\ tasks = <<>>
    /\ results = <<>>
    /\ origin = <<>>
    /\ ri = 0
    /\ fatal = "none"
    /\ completed = <<>>
    /\ emitted = <<>>
    /\ harness \in h

Init == InitWith(RunTrees, "start", {Idle})

(***************************************************************************)
(* main, up to the return of find_images_in_directory_concurrent.          *)
(***************************************************************************)
\* main.rs:155-160  the arguments are parsed; the banner is printed
Start ==
    /\ mainpc = "start"
    /\ stdout' = Append(stdout, RunningLine)
    /\ mainpc' = "walk"
    /\ UNCHANGED <<tree, entries, nspawned, fpc, chan, txMain, images, tasks,
                   results, origin, ri, fatal, completed, emitted, harness>>

\* main.rs:64-71  the blocking walk
Walk ==
    /\ mainpc = "walk"
    /\ entries' = WalkEntries(tree)
    /\ fpc' = [k \in 1..Len(entries') |-> "unspawned"]
    /\ mainpc' = "channel"
    /\ UNCHANGED <<tree, nspawned, chan, txMain, images, stdout, tasks,
                   results, origin, ri, fatal, completed, emitted, harness>>

\* main.rs:73  mpsc::channel(entries.len()) panics when the capacity is 0
ChannelPanics(cap) == cap = 0

\* main.rs:73
Channel ==
    /\ mainpc = "channel"
    /\ IF ChannelPanics(Len(entries))
       THEN /\ mainpc' = "panicked"
            /\ UNCHANGED txMain
       ELSE /\ mainpc' = "spawn_filters"
            /\ txMain' = TRUE
    /\ UNCHANGED <<tree, entries, nspawned, fpc, chan, images, stdout, tasks,
                   results, origin, ri, fatal, completed, emitted, harness>>

\* main.rs:75-88  one tokio task per entry, each with a clone of the sender
SpawnFilter ==
    /\ mainpc = "spawn_filters"
    /\ nspawned < Len(entries)
    /\ nspawned' = nspawned + 1
    /\ fpc' = [fpc EXCEPT ![nspawned + 1] = "ready"]
    /\ UNCHANGED <<tree, mainpc, entries, chan, txMain, images, stdout, tasks,
                   results, origin, ri, fatal, completed, emitted, harness>>

\* main.rs:90  drop(tx)
DropTx ==
    /\ mainpc = "spawn_filters"
    /\ nspawned = Len(entries)
    /\ txMain' = FALSE
    /\ mainpc' = "recv"
    /\ UNCHANGED <<tree, entries, nspawned, fpc, chan, images, stdout, tasks,
                   results, origin, ri, fatal, completed, emitted, harness>>

\* main.rs:79-81  a filter task's first poll: with an image extension it
\* goes on to send, otherwise it ends and drops its sender
FilterEntry(k) ==
    /\ fpc[k] = "ready"
    /\ WorkerFree
    /\ fpc' = [fpc EXCEPT ![k] =
                  IF HasImageExtension(tree, entries[k]) THEN "sending" ELSE "done"]
    /\ UNCHANGED <<tree, mainpc, entries, nspawned, chan, txMain, images, stdout,
                   tasks, results, origin, ri, fatal, completed, emitted, harness>>

\* mutant of Capacity: a buffer of half the entries
CapacityHalf == (Len(entries) + 1) \div 2

\* main.rs:73  the capacity of the channel
Capacity == Len(entries)

\* main.rs:82-84  tx.send(path).await completes when the buffer has room;
\* the task then ends and drops its sender
SendPath(k) ==
    /\ fpc[k] = "sending"
    /\ Len(chan) < Capacity
    /\ chan' = Append(chan, entries[k])
    /\ fpc' = [fpc EXCEPT ![k] = "done"]
    /\ UNCHANGED <<tree, mainpc, entries, nspawned, txMain, images, stdout,
                   tasks, results, origin, ri, fatal, completed, emitted, harness>>

\* a sender is alive: the original, or the clone a spawned task still holds
SendersAlive == txMain \/ \E k \in 1..Len(fpc) : fpc[k] \in {"ready", "sending"}

\* main.rs:92-94  rx.recv() yields a buffered path
RecvPath ==
    /\ mainpc = "recv"
    /\ chan # <<>>
    /\ images' = Append(images, Head(chan))
    /\ chan' = Tail(chan)
    /\ UNCHANGED <<tree, mainpc, entries, nspawned, fpc, txMain, stdout, tasks,
                   results, origin, ri, fatal, completed, emitted, harness>>

\* main.rs:92-96  rx.recv() yields None once the buffer is empty and every
\* sender is dropped; the locator returns Ok(images)
RecvNone ==
    /\ mainpc = "recv"
    /\ chan = <<>>
    /\ ~SendersAlive
    /\ mainpc' = "load_models"
    /\ UNCHANGED <<tree, entries, nspawned, fpc, chan, txMain, images, stdout,
                   tasks, results, origin, ri, fatal, completed, emitted, harness>>

(***************************************************************************)
(* main, from the model files to the report.                               *)
(***************************************************************************)
\* main.rs:164-171  each of the three can fail, and `?` returns the error
LoadOutcomes == {"ok", "detection_model", "recognition_model", "engine"}

\* mutant of LoadModels: the error of a load is kept for the end and the
\* run goes on
LoadModelsLate ==
    /\ mainpc = "load_models"
    /\ \E o \in LoadOutcomes :
          /\ mainpc' = "print_count"
          /\ IF o = "ok" THEN UNCHANGED fatal ELSE fatal' = o
    /\ UNCHANGED <<tree, entries, nspawned, fpc, chan, txMain, images, stdout,
                   tasks, results, origin, ri, completed, emitted, harness>>

\* main.rs:161-171
LoadModels ==
    /\ mainpc = "load_models"
    /\ \E o \in LoadOutcomes :
          IF o = "ok"
          THEN mainpc' = "print_count" /\ UNCHANGED fatal
          ELSE mainpc' = "fatal" /\ fatal' = o
    /\ UNCHANGED <<tree, entries, nspawned, fpc, chan, txMain, images, stdout,
                   tasks, results, origin, ri, completed, emitted, harness>>

\* main.rs:173
PrintCount ==
    /\ mainpc = "print_count"
    /\ stdout' = Append(stdout, CountLine(Len(images)))
    /\ mainpc' = "spawn_images"
    /\ UNCHANGED <<tree, entries, nspawned, fpc, chan, txMain, images, tasks,
                   results, origin, ri, fatal, completed, emitted, harness>>

\* main.rs:175-180  try_join_all collects the iterator: one tokio::spawn
\* per found image, in the order of found_images
SpawnImage ==
    /\ mainpc = "spawn_images"
    /\ Len(tasks) < Len(images)
    /\ tasks' = Append(tasks, [path |-> images[Len(tasks) + 1], pc |-> "queued",
                               result |-> Pending])
    /\ UNCHANGED <<tree, mainpc, entries, nspawned, fpc, chan, txMain, images,
                   stdout, results, origin, ri, fatal, completed, emitted, harness>>

\* main.rs:180  every task is spawned; main awaits the joint future
AwaitAll ==
    /\ mainpc = "spawn_images"
    /\ Len(tasks) = Len(images)
    /\ mainpc' = "join"
    /\ UNCHANGED <<tree, entries, nspawned, fpc, chan, txMain, images, stdout,
                   tasks, results, origin, ri, fatal, completed, emitted, harness>>

\* mutant of MayStart: a thread per task, no worker pool
MayStartUncapped == ~Ended

\* a worker may take a queued task: there is a free worker and the runtime
\* is not shut down (it is when main has returned)
MayStart == WorkerFree /\ ~Ended

\* main.rs:127  a worker takes the task: its first and only poll begins
StartImage(i) ==
    /\ tasks[i].pc = "queued"
    /\ MayStart
    /\ tasks' = [tasks EXCEPT ![i].pc = "decode"]
    /\ stdout' = Append(stdout, ScanningLine(tasks[i].path))
    /\ UNCHANGED <<tree, mainpc, entries, nspawned, fpc, chan, txMain, images,
                   results, origin, ri, fatal, completed, emitted, harness>>

\* the task ends with result r
Finish(i, r) ==
    /\ tasks' = [tasks EXCEPT ![i].pc = "done", ![i].result = r]
    /\ completed' = Append(completed, i)

\* the stage at pc succeeds and the task goes on to stage next
Advance(i, next) ==
    /\ tasks' = [tasks EXCEPT ![i].pc = next]
    /\ UNCHANGED completed

\* what a call into the image or OCR library can do: return a value,
\* return an error, or panic
CallOutcomes == {"ok", "err", "panic"}

\* a fallible stage: main.rs:128 (decode), 129-130 (prepare), 132 (detect)
Stage(i, pc, next, error) ==
    /\ tasks[i].pc = pc
    /\ \E o \in CallOutcomes :
          CASE o = "ok" -> Advance(i, next)
            [] o = "err" -> Finish(i, ErrOf(error))
            [] o = "panic" -> Finish(i, JoinError)
    /\ UNCHANGED <<tree, mainpc, entries, nspawned, fpc, chan, txMain, images,
                   stdout, results, origin, ri, fatal, emitted, harness>>

\* mutant of Decode: the decoded image goes to word detection unprepared
DecodeSkipsPrepare(i) == Stage(i, "decode", "detect", "Decode")

\* main.rs:128  image::open(..)?
Decode(i) == Stage(i, "decode", "prepare", "Decode")
\* main.rs:129-130  ImageSource::from_bytes(..)?, engine.prepare_input(..)?
Prepare(i) == Stage(i, "prepare", "detect", "Prepare")
\* main.rs:132  engine.detect_words(..)?
DetectWords(i) == Stage(i, "detect", "group", "DetectWords")

\* main.rs:133  engine.find_text_lines(..): no error to return
FindTextLines(i) ==
    /\ tasks[i].pc = "group"
    /\ Advance(i, "recognize")
    /\ UNCHANGED <<tree, mainpc, entries, nspawned, fpc, chan, txMain, images,
                   stdout, results, origin, ri, fatal, emitted, harness>>

\* main.rs:143-147  the value the task returns for line_texts
ImgOf(path, line_texts) == Img(path, TextOf(line_texts), FALSE)

\* main.rs:134-147  engine.recognize_text(..)?, then the line filter
Recognize(i) ==
    /\ tasks[i].pc = "recognize"
    /\ \/ \E lt \in RunLineResults : Finish(i, OkOf(ImgOf(tasks[i].path, lt)))
       \/ Finish(i, ErrOf("Recognize"))
       \/ Finish(i, JoinError)
    /\ UNCHANGED <<tree, mainpc, entries, nspawned, fpc, chan, txMain, images,
                   stdout, results, origin, ri, fatal, emitted, harness>>

\* main.rs:129-134  a call into the OCR engine (prepare_input, detect_words,
\* find_text_lines, recognize_text) never returns: the code sets no timeout
\* on it, and the task stays inside the call, on its worker
Hang(i) ==
    /\ tasks[i].pc \in {"prepare", "detect", "group", "recognize"}
    /\ tasks' = [tasks EXCEPT ![i].pc = "hung"]
    /\ UNCHANGED <<tree, mainpc, entries, nspawned, fpc, chan, txMain, images,
                   stdout, results, origin, ri, fatal, completed, emitted, harness>>

\* mutant of SomePanicked: the join fails fast on an error value too
SomeAbnormal ==
    \E i \in 1..Len(tasks) : tasks[i].result.tag \in {"JoinError", "Err"}

\* mutant of AllDone: the wait ends with the first task that ends
SomeDone == \E i \in 1..Len(tasks) : tasks[i].pc = "done"

\* main.rs:180  every JoinHandle is resolved
AllDone == \A i \in 1..Len(tasks) : tasks[i].pc = "done"
SomePanicked == \E i \in 1..Len(tasks) : tasks[i].result = JoinError

\* main.rs:180  try_join_all(..).await?  ends with the first JoinError it
\* meets, without waiting for the other tasks
JoinFails ==
    /\ mainpc = "join"
    /\ SomePanicked
    /\ mainpc' = "fatal"
    /\ fatal' = "JoinError"
    /\ UNCHANGED <<tree, entries, nspawned, fpc, chan, txMain, images, stdout,
                   tasks, results, origin, ri, completed, emitted, harness>>

\* mutant of JoinOrder: the results in the order the tasks completed
JoinOrderByCompletion == completed

\* main.rs:180  try_join_all keeps the order of the futures it was given:
\* result k is that of future k, the task of found_images[k]
JoinOrder == [k \in 1..Len(tasks) |-> k]

\* mutant of JoinAll: a panicked task is taken as one more failed image
JoinAllLenient ==
    /\ mainpc = "join"
    /\ AllDone
    /\ origin' = JoinOrder
    /\ results' = [k \in 1..Len(tasks) |-> tasks[origin'[k]].result]
    /\ mainpc' = "report"
    /\ UNCHANGED <<tree, entries, nspawned, fpc, chan, txMain, images, stdout,
                   tasks, ri, fatal, completed, emitted, harness>>

\* main.rs:180  every task has returned
JoinAll ==
    /\ mainpc = "join"
    /\ AllDone /\ ~SomePanicked
    /\ origin' = JoinOrder
    /\ results' = [k \in 1..Len(tasks) |-> tasks[origin'[k]].result]
    /\ mainpc' = "report"
    /\ UNCHANGED <<tree, entries, nspawned, fpc, chan, txMain, images, stdout,
                   tasks, ri, fatal, completed, emitted, harness>>

\* mutant of Reported: a detector that keeps state between its calls, and
\* answers true once it has found a secret
ReportedSticky(r) ==
    IF r.tag = "Ok"
    THEN OkOf(Img(r.img.path, r.img.text,
                  \/ detect_secrets(r.img.text)
                  \/ \E k \in 1..ri : results[k].tag = "Ok" /\ results[k].img.has_secrets))
    ELSE r

\* main.rs:182-194  what the loop does with one result
Reported(r) ==
    IF r.tag = "Ok"
    THEN OkOf(Img(r.img.path, r.img.text, detect_secrets(r.img.text)))
    ELSE r
BlockOf(r) == IF r.tag = "Ok" THEN SuccessBlock(r.img) ELSE FailureBlock(r.error)

\* mutant of Report: the loop prints nothing for a failed image
ReportSkipsFailures ==
    /\ mainpc = "report"
    /\ ri < Len(results)
    /\ LET r == Reported(results[ri + 1])
       IN  /\ results' = [results EXCEPT ![ri + 1] = r]
           /\ IF r.tag = "Ok"
              THEN /\ stdout' = Append(stdout, BlockOf(r))
                   /\ emitted' = Append(emitted, origin[ri + 1])
              ELSE UNCHANGED <<stdout, emitted>>
    /\ ri' = ri + 1
    /\ UNCHANGED <<tree, mainpc, entries, nspawned, fpc, chan, txMain, images,
                   tasks, origin, fatal, completed, harness>>

\* main.rs:181-195  one turn of the report loop
Report ==
    /\ mainpc = "report"
    /\ ri < Len(results)
    /\ LET r == Reported(results[ri + 1])
       IN  /\ results' = [results EXCEPT ![ri + 1] = r]
           /\ stdout' = Append(stdout, BlockOf(r))
    /\ emitted' = Append(emitted, origin[ri + 1])
    /\ ri' = ri + 1
    /\ UNCHANGED <<tree, mainpc, entries, nspawned, fpc, chan, txMain, images,
                   tasks, origin, fatal, completed, harness>>

\* main.rs:196  Ok(())
Finished ==
    /\ mainpc = "report"
    /\ ri = Len(results)
    /\ mainpc' = "done"
    /\ UNCHANGED <<tree, entries, nspawned, fpc, chan, txMain, images, stdout,
                   tasks, results, origin, ri, fatal, completed, emitted, harness>>

(***************************************************************************)
(* The specifications.                                                     *)
(***************************************************************************)
Locate ==
    \/ Start
    \/ Walk
    \/ Channel
    \/ SpawnFilter
    \/ DropTx
    \/ \E k \in 1..Len(fpc) : FilterEntry(k)
    \/ \E k \in 1..Len(fpc) : SendPath(k)
    \/ RecvPath
    \/ RecvNone

Scan ==
    \/ LoadModels
    \/ PrintCount
    \/ SpawnImage
    \/ AwaitAll
    \/ \E i \in 1..Len(tasks) : StartImage(i)
    \/ \E i \in 1..Len(tasks) : Decode(i)
    \/ \E i \in 1..Len(tasks) : Prepare(i)
    \/ \E i \in 1..Len(tasks) : DetectWords(i)
    \/ \E i \in 1..Len(tasks) : FindTextLines(i)
    \/ \E i \in 1..Len(tasks) : Recognize(i)
    \/ JoinFails
    \/ JoinAll
    \/ Report
    \/ Finished

Next == Locate \/ Scan

\* a whole run of main()
Spec == Init /\ [][Next]_vars

\* the tree of n image files under the root, and the state in which the
\* locator has returned them in the order of the walk
ImageTree(n) == [i \in 1..n |-> Node(Root, Shape("file", Some(Png), FALSE))]
InitFound ==
    /\ \E n \in 1..MaxImages :
          /\ tree = ImageTree(n)
          /\ entries = [i \in 1..n |-> i]
          /\ fpc = [i \in 1..n |-> "done"]
          /\ nspawned = n
          /\ images = [i \in 1..n |-> i]
    /\ mainpc = "load_models"
    /\ chan = <<>>
    /\ txMain = FALSE
    /\ stdout = <<RunningLine>>
    /\ tasks = <<>>
    /\ results = <<>>
    /\ origin = <<>>
    /\ ri = 0
    /\ fatal = "none"
    /\ completed = <<>>
    /\ emitted = <<>>
    /\ harness = Idle

\* main once the locator has returned, with calls into the OCR engine that
\* may never return
ScanOrHang == Scan \/ \E i \in 1..Len(tasks) : Hang(i)

\* main is polled whenever it can go on
MainSteps ==
    \/ LoadModels \/ PrintCount \/ SpawnImage \/ AwaitAll
    \/ JoinFails \/ JoinAll \/ Report \/ Finished

\* task i is taken by a free worker, and a call that returns does return
TaskSteps(i) ==
    /\ i <= Len(tasks)
    /\ \/ StartImage(i) \/ Decode(i) \/ Prepare(i) \/ DetectWords(i)
       \/ FindTextLines(i) \/ Recognize(i)

\* the scheduling of the tokio runtime: a task that can run is run
FairScan ==
    /\ WF_vars(MainSteps)
    /\ \A i \in 1..MaxImages : WF_vars(TaskSteps(i))

SpecHang == InitFound /\ [][ScanOrHang]_vars /\ FairScan

\* find_images_in_directory_concurrent alone, on every tree of the bound
InitLocator == InitWith(LocatorTrees, "start", {Idle})
SpecLocator == InitLocator /\ [][Locate]_vars

\* the locator is polled whenever it can go on
LocatorSteps ==
    \/ Start \/ Walk \/ Channel \/ SpawnFilter \/ DropTx \/ RecvPath \/ RecvNone

\* the filter task of entry k is taken by a free worker, and its send
\* completes when the buffer has room
FilterSteps(k) ==
    /\ k <= Len(fpc)
    /\ FilterEntry(k) \/ SendPath(k)

\* the scheduling of the tokio runtime: a task that can run is run
FairLocate ==
    /\ WF_vars(LocatorSteps)
    /\ \A k \in 1..MaxNodes : WF_vars(FilterSteps(k))

SpecLocatorFair == InitLocator /\ [][Locate]_vars /\ FairLocate

(***************************************************************************)
(* The pure functions alone: one call on each input of a bounded set.      *)
(***************************************************************************)
RECURSIVE SeqsUpTo(_, _)
\* the sequences of at most n elements of S
SeqsUpTo(S, n) ==
    IF n = 0 THEN { <<>> }
    ELSE LET shorter == SeqsUpTo(S, n - 1)
         IN  shorter \cup { Append(q, x) : q \in shorter, x \in S }

Key8 == <<"A","B","C","D","E","F","G","1">>
Low8 == <<"h","u","n","t","e","r","2","z">>
TokenMixed == <<"T","o","K","e","n">>
PasswordLongS == <<"P","a","U+017F","s","w","o","r","d">>
Fragments ==
    { Akia, Key8, Low8, TokenMixed, PasswordLongS, NpmLit,
      <<"=">>, <<" ",":"," ">>, <<" ">>, <<"@">> }

\* the texts given to detect_secrets
Texts == { Concat(fs) : fs \in SeqsUpTo(Fragments, MaxFrags) }

EAcute == <<"U+00E9">>
Str_ab == <<"a","b">>
LineOptions ==
    { None, Some(<<>>), Some(Str_a), Some(Str_x), Some(EAcute), Some(Str_ab),
      Some(HelloWorld), Some(ConfidentialData) }

\* the recognition results given to the line filter
LineTexts == SeqsUpTo(LineOptions, MaxLines)

Call(fn, arg) == [fn |-> fn, arg |-> arg, ret |-> None]

\* main.rs:183  detect_secrets(&img.text)
CallDetectSecrets ==
    /\ harness.fn = "detect_secrets"
    /\ harness.ret = None
    /\ harness' = [harness EXCEPT !.ret = Some(detect_secrets(harness.arg))]
    /\ UNCHANGED <<tree, mainpc, entries, nspawned, fpc, chan, txMain, images,
                   stdout, tasks, results, origin, ri, fatal, completed, emitted>>

InitSecrets == InitWith({<<>>}, "idle", { Call("detect_secrets", t) : t \in Texts })
SpecSecrets == InitSecrets /\ [][CallDetectSecrets]_vars

\* main.rs:136-145  the text of the recognition results
CallTextOf ==
    /\ harness.fn = "TextOf"
    /\ harness.ret = None
    /\ harness' = [harness EXCEPT !.ret = Some(TextOf(harness.arg))]
    /\ UNCHANGED <<tree, mainpc, entries, nspawned, fpc, chan, txMain, images,
                   stdout, tasks, results, origin, ri, fatal, completed, emitted>>

InitLines == InitWith({<<>>}, "idle", { Call("TextOf", lt) : lt \in LineTexts })
SpecLines == InitLines /\ [][CallTextOf]_vars

\* main.rs:134-147, 181-189  what the run prints for the image at path once
\* recognize_text has returned line_texts: the task returns Ok(img), and the
\* report loop checks its text and prints its block
OutcomeOf(path, line_texts) == BlockOf(Reported(OkOf(ImgOf(path, line_texts))))

CallOutcomeOf ==
    /\ harness.fn = "OutcomeOf"
    /\ harness.ret = None
    /\ harness' = [harness EXCEPT !.ret = Some(OutcomeOf(1, harness.arg))]
    /\ UNCHANGED <<tree, mainpc, entries, nspawned, fpc, chan, txMain, images,
                   stdout, tasks, results, origin, ri, fatal, completed, emitted>>

InitOutcome == InitWith({<<>>}, "idle", { Call("OutcomeOf", lt) : lt \in LineTexts })
SpecOutcome == InitOutcome /\ [][CallOutcomeOf]_vars

(***************************************************************************)
(* What the claims read off a state.                                       *)
(***************************************************************************)
\* the per-image outcome blocks printed so far, in print order
OutcomeBlocks == SelectSeq(stdout, LAMBDA l : l.kind \in {"Success", "Failure"})

\* the positions of task i in the sequence of emitted blocks
BlocksOf(i) == { p \in 1..Len(emitted) : emitted[p] = i }

\* the tasks that ended with an error value, with error e, with a value
FailedTasks == { i \in 1..Len(tasks) : tasks[i].result.tag = "Err" }
FailedWith(e) == { i \in FailedTasks : tasks[i].result.error = e }
SucceededTasks == { i \in 1..Len(tasks) : tasks[i].result.tag = "Ok" }
PanickedTasks == { i \in 1..Len(tasks) : tasks[i].result.tag = "JoinError" }

\* every candidate has a task; each task failed at decode or succeeded
DecodeFailuresOnly ==
    /\ mainpc \in {"join", "report", "done", "fatal"}
    /\ FailedWith("Decode") \cup SucceededTasks = 1..Len(images)

CountBlocks(kind) ==
    Cardinality({ p \in 1..Len(OutcomeBlocks) : OutcomeBlocks[p].kind = kind })

\* task i has exactly one block, and it is the block of its result
HasItsOutcome(i) ==
    /\ Cardinality(BlocksOf(i)) = 1
    /\ \A p \in BlocksOf(i) :
          IF tasks[i].result.tag = "Ok"
          THEN /\ OutcomeBlocks[p].kind = "Success"
               /\ OutcomeBlocks[p].path = images[i]
               /\ OutcomeBlocks[p].text = tasks[i].result.img.text
          ELSE /\ OutcomeBlocks[p].kind = "Failure"
               /\ OutcomeBlocks[p].error = tasks[i].result.error

\* C1. Totality: when every one of the N candidates either failed at decode
\* (K of them) or was extracted, main does not end with a join error, and
\* once it has ended it has printed exactly N outcome blocks, one for each
\* candidate: K failure blocks, all with the decode error, and N-K success
\* blocks.
Totality ==
    DecodeFailuresOnly =>
        /\ fatal # "JoinError"
        /\ mainpc = "done" =>
              /\ Len(OutcomeBlocks) = Len(images)
              /\ Len(emitted) = Len(images)
              /\ \A i \in 1..Len(images) : HasItsOutcome(i)
              /\ CountBlocks("Failure") = Cardinality(FailedWith("Decode"))
              /\ CountBlocks("Success") =
                    Len(images) - Cardinality(FailedWith("Decode"))

\* a finished run of three candidates, one of which failed at decode
TotalityWitness ==
    /\ mainpc = "done"
    /\ DecodeFailuresOnly
    /\ Len(images) = 3
    /\ Cardinality(FailedWith("Decode")) = 1

\* C2. Isolation: an error value returned by a stage of one image never ends
\* the run: main ends with a join error only if a task panicked, main never
\* ends while a task of a batch without panic is still queued or running,
\* and in a finished run with a failed image every candidate, failed or not,
\* has exactly its own outcome block.
Isolation ==
    /\ fatal = "JoinError" => PanickedTasks # {}
    /\ (FailedTasks # {} /\ PanickedTasks = {} /\ mainpc \in {"done", "fatal", "panicked"}) =>
          /\ mainpc = "done"
          /\ \A i \in 1..Len(tasks) : tasks[i].pc = "done"
          /\ Len(tasks) = Len(images)
          /\ Len(OutcomeBlocks) = Len(images)
          /\ \A i \in 1..Len(images) : HasItsOutcome(i)

\* a finished run in which one image failed after decode (at recognition),
\* another failed at word detection and a third was extracted
IsolationWitness ==
    /\ mainpc = "done"
    /\ FailedWith("Recognize") # {}
    /\ FailedWith("DetectWords") # {}
    /\ SucceededTasks # {}

\* the place of task i in the completion order (0: not completed)
CompletedAt(i) ==
    IF \E p \in 1..Len(completed) : completed[p] = i
    THEN CHOOSE p \in 1..Len(completed) : completed[p] = i ELSE 0

\* C3 as stated: the blocks are emitted in completion order (if A completed
\* before B, A's block is before B's).
EmittedInCompletionOrder ==
    \A p, q \in 1..Len(emitted) :
        p < q => CompletedAt(emitted[p]) < CompletedAt(emitted[q])

\* C3, amended: the blocks are emitted in the order of the candidate list
\* (found_images), whatever the order of completion: block p is the block
\* of candidate p, and a success block carries the path found_images[p].
EmittedInCandidateOrder ==
    /\ Len(emitted) = Len(OutcomeBlocks)
    /\ \A p \in 1..Len(emitted) :
          /\ emitted[p] = p
          /\ OutcomeBlocks[p].kind = "Success" => OutcomeBlocks[p].path = images[p]

\* two blocks are out, the first of a candidate that completed last
CandidateOrderWitness ==
    /\ Len(emitted) >= 2
    /\ CompletedAt(emitted[1]) > CompletedAt(emitted[2])
    /\ CompletedAt(emitted[1]) = Len(tasks)

\* C4. Bounded concurrency: the images being processed (decode started,
\* recognition not finished) are never more than the worker threads,
\* however many candidates there are.
BoundedConcurrency ==
    Cardinality({ i \in 1..Len(tasks) :
                    tasks[i].pc \in {"decode", "prepare", "detect", "group", "recognize"} })
        <= NumWorkers

\* every worker is busy with an image and a candidate is waiting for one
BoundedConcurrencyWitness ==
    /\ Cardinality({ i \in 1..Len(tasks) : tasks[i].pc \notin {"queued", "done"} })
          = NumWorkers
    /\ \E i \in 1..Len(tasks) : tasks[i].pc = "queued"
    /\ Len(tasks) > NumWorkers

\* there is no regular file anywhere under the root
NoRegularFile == \A n \in 1..Len(tree) : tree[n].kind # "file"

\* the locator has ended: it returned its images, or it panicked
LocatorReturned ==
    mainpc \notin {"start", "walk", "channel", "spawn_filters", "recv", "panicked", "idle"}
LocatorEnded == LocatorReturned \/ mainpc = "panicked"

\* the set of paths in a sequence
Range(q) == { q[k] : k \in 1..Len(q) }

\* C5. On a root with no regular file under it the locator returns the
\* empty set without error, and the run, once it has ended with the models
\* loaded, has printed the count 0, has scanned nothing and ended with Ok.
EmptyDirectoryScansNothing ==
    NoRegularFile =>
        /\ mainpc # "panicked"
        /\ LocatorReturned => images = <<>>
        /\ mainpc = "done" =>
              /\ \E p \in 1..Len(stdout) : stdout[p] = CountLine(0)
              /\ \A p \in 1..Len(stdout) : stdout[p].kind # "Scanning"
              /\ tasks = <<>>

\* the six extensions, as the claim lists them
ClaimedExtensions ==
    { <<"j","p","g">>, <<"j","p","e","g">>, <<"p","n","g">>, <<"g","i","f">>,
      <<"b","m","p">>, <<"t","i","f","f">> }

\* the regular files under the root whose lower-cased extension is listed
ClaimedImages ==
    { n \in 1..Len(tree) :
        /\ tree[n].kind = "file"
        /\ tree[n].ext # None
        /\ \E x \in ClaimedExtensions :
              /\ Len(x) = Len(tree[n].ext[1])
              /\ \A k \in 1..Len(x) :
                    \/ tree[n].ext[1][k] = x[k]
                    \/ \E u \in 1..26 : UpperSeq[u] = tree[n].ext[1][k] /\ LowerSeq[u] = x[k] }

\* C6. For every tree, whatever the interleaving of the filter tasks, the
\* locator ends by returning exactly the regular files under the root with
\* one of the six extensions (lower-cased), each once.
LocatorExact ==
    LocatorEnded =>
        /\ LocatorReturned
        /\ Range(images) = ClaimedImages
        /\ Len(images) = Cardinality(ClaimedImages)

\* C6 without the trees that have no regular file (not a claim: what is
\* left of LocatorExact apart from the panic of C5)
LocatorExactOnFiles ==
    (LocatorEnded /\ ~NoRegularFile) =>
        /\ LocatorReturned
        /\ Range(images) = ClaimedImages
        /\ Len(images) = Cardinality(ClaimedImages)

\* the files whose content cannot be read
DeniedFiles == { n \in 1..Len(tree) : tree[n].kind = "file" /\ tree[n].denied }

\* one permission-denied file among readable images, and nothing else
OneDeniedAmongImages ==
    /\ Cardinality(DeniedFiles) = 1
    /\ \A n \in 1..Len(tree) : n \in DeniedFiles \/ n \in ClaimedImages

\* C7. With one permission-denied file among N readable images the locator
\* ends without error and returns exactly the N readable images.
UnreadableSkipped ==
    (OneDeniedAmongImages /\ LocatorEnded) =>
        /\ LocatorReturned
        /\ Range(images) = ClaimedImages \ DeniedFiles
        /\ Len(images) = Cardinality(ClaimedImages \ DeniedFiles)

\* C9. Every failure block printed carries the path of the candidate that
\* failed, together with the error.
FailureCarriesPath ==
    \A p \in 1..Len(OutcomeBlocks) :
        OutcomeBlocks[p].kind = "Failure" =>
            /\ "error" \in DOMAIN OutcomeBlocks[p]
            /\ "path" \in DOMAIN OutcomeBlocks[p]
            /\ OutcomeBlocks[p].path = images[emitted[p]]

\* the letters of word, in either case (the long s for an s, the Kelvin
\* sign for a k), are at i
WordAt(d, i, word) ==
    /\ i + Len(word) - 1 <= Len(d)
    /\ \A k \in 1..Len(word) :
          \/ d[i + k - 1] = word[k]
          \/ \E u \in 1..26 : LowerSeq[u] = word[k] /\ UpperSeq[u] = d[i + k - 1]
          \/ word[k] = "s" /\ d[i + k - 1] = "U+017F"
          \/ word[k] = "k" /\ d[i + k - 1] = "U+212A"

AllWhite(d, a, b) == \A m \in a..b : d[m] \in {" ", "\t", "\n"}

\* AKIA followed by 16 characters of 0-9A-Z, somewhere in d
HasAccessKey(d) ==
    \E i \in 1..Len(d) :
        /\ i + 19 <= Len(d)
        /\ SubSeq(d, i, i + 3) = <<"A","K","I","A">>
        /\ \A m \in (i + 4)..(i + 19) : d[m] \in Digit \cup Upper

\* word, optional white space, : or =, optional white space, and at least
\* one character that is not white space, somewhere in d
HasAssignment(d, word) ==
    \E i \in 1..Len(d) :
        /\ WordAt(d, i, word)
        /\ \E j \in (i + Len(word))..Len(d) :
              /\ AllWhite(d, i + Len(word), j - 1)
              /\ d[j] \in {":", "="}
              /\ \E k \in (j + 1)..Len(d) :
                    /\ AllWhite(d, j + 1, k - 1)
                    /\ d[k] \notin {" ", "\t", "\n"}

\* npm_ followed by at least one character of a-zA-Z0-9@, somewhere in d
HasNpmToken(d) ==
    \E i \in 1..Len(d) :
        /\ i + 4 <= Len(d)
        /\ SubSeq(d, i, i + 3) = <<"n","p","m","_">>
        /\ d[i + 4] \in Lower \cup Upper \cup Digit \cup {"@"}

AnyPatternMatches(d) ==
    \/ HasAccessKey(d)
    \/ HasAssignment(d, <<"t","o","k","e","n">>)
    \/ HasAssignment(d, <<"p","a","s","s","w","o","r","d">>)
    \/ HasNpmToken(d)

\* C8. The verdict of detect_secrets on a text is true exactly when one of
\* the four patterns matches somewhere in the text: every match passes the
\* similarity threshold.
VerdictIsAnyMatch ==
    (harness.fn = "detect_secrets" /\ harness.ret # None) =>
        harness.ret[1] = AnyPatternMatches(harness.arg)

\* the shortest match there is, npm_ and one character, gave the verdict true
VerdictWitness ==
    /\ harness.fn = "detect_secrets"
    /\ harness.arg = <<"n","p","m","_","@">>
    /\ harness.ret = <<TRUE>>

RECURSIVE ClaimedLines(_)
\* the recognized lines in order, without the absent results and without
\* the lines of at most 1 character
ClaimedLines(lt) ==
    IF lt = <<>> THEN <<>>
    ELSE (IF Head(lt) # <<>> /\ Len(Head(lt)[1]) > 1 THEN <<Head(lt)[1]>> ELSE <<>>)
         \o ClaimedLines(Tail(lt))

RECURSIVE ClaimedJoin(_)
\* the lines joined by a single newline
ClaimedJoin(ls) ==
    IF ls = <<>> THEN <<>>
    ELSE IF Len(ls) = 1 THEN ls[1]
    ELSE ls[1] \o <<"\n">> \o ClaimedJoin(Tail(ls))

\* C10. The text blob of an image is its recognized lines in their order,
\* without the absent results and the lines of at most 1 character, joined
\* by a single newline.
TextIsClaimedLines ==
    (harness.fn = "TextOf" /\ harness.ret # None) =>
        harness.ret[1] = ClaimedJoin(ClaimedLines(harness.arg))

\* C10 on the lines that hold no character outside ASCII (not a claim: what
\* is left of TextIsClaimedLines when bytes and characters coincide)
TextIsClaimedLinesAscii ==
    ( /\ harness.fn = "TextOf" /\ harness.ret # None
      /\ \A k \in 1..Len(harness.arg) :
            harness.arg[k] # <<>> =>
                \A m \in 1..Len(harness.arg[k][1]) :
                    harness.arg[k][1][m] \notin TwoByte \cup ThreeByte ) =>
        harness.ret[1] = ClaimedJoin(ClaimedLines(harness.arg))

\* C11. An image whose recognition yields no usable line (no line, absent
\* results only, or only lines of at most 1 character) gets a Success block
\* with the empty text and the verdict of no secret, never a Failure block.
EmptyIsSuccess ==
    ( /\ harness.fn = "OutcomeOf" /\ harness.ret # None
      /\ ClaimedLines(harness.arg) = <<>> ) =>
        /\ harness.ret[1].kind = "Success"
        /\ harness.ret[1].text = <<>>
        /\ harness.ret[1].has_secrets = FALSE

\* C11 on the lines that hold no character outside ASCII (not a claim: what
\* is left of EmptyIsSuccess when bytes and characters coincide)
EmptyIsSuccessAscii ==
    ( /\ harness.fn = "OutcomeOf" /\ harness.ret # None
      /\ ClaimedLines(harness.arg) = <<>>
      /\ \A k \in 1..Len(harness.arg) :
            harness.arg[k] # <<>> =>
                \A m \in 1..Len(harness.arg[k][1]) :
                    harness.arg[k][1][m] \notin TwoByte \cup ThreeByte ) =>
        /\ harness.ret[1].kind = "Success"
        /\ harness.ret[1].text = <<>>
        /\ harness.ret[1].has_secrets = FALSE

\* C11 without the empty blob (not a claim): the outcome is a Success block
\* with the verdict of no secret
EmptyIsNeverFailure ==
    ( /\ harness.fn = "OutcomeOf" /\ harness.ret # None
      /\ ClaimedLines(harness.arg) = <<>> ) =>
        /\ harness.ret[1].kind = "Success"
        /\ harness.ret[1].has_secrets = FALSE

\* the verdicts of the success blocks depend on the text alone
SameTextSameVerdict ==
    \A p, q \in 1..Len(OutcomeBlocks) :
        ( /\ OutcomeBlocks[p].kind = "Success" /\ OutcomeBlocks[q].kind = "Success"
          /\ OutcomeBlocks[p].text = OutcomeBlocks[q].text ) =>
            OutcomeBlocks[p].has_secrets = OutcomeBlocks[q].has_secrets

\* a step that checks a text changes nothing but the loop's own: the verdict
\* of the result at hand, the output and the position of the loop
CheckChangesNothingElse ==
    ri' = ri + 1 =>
        /\ UNCHANGED <<tree, mainpc, entries, nspawned, fpc, chan, txMain, images,
                       tasks, origin, fatal, completed, harness>>
        /\ Len(results') = Len(results)
        /\ \A k \in 1..Len(results) :
              /\ results'[k].tag = results[k].tag
              /\ results'[k].error = results[k].error
              /\ results'[k].img.path = results[k].img.path
              /\ results'[k].img.text = results[k].img.text
              /\ k # ri + 1 => results'[k] = results[k]
        /\ Len(stdout') = Len(stdout) + 1
        /\ SubSeq(stdout', 1, Len(stdout)) = stdout

StageAfter(pc) ==
    CASE pc = "queued" -> "decode"
      [] pc = "decode" -> "prepare"
      [] pc = "prepare" -> "detect"
      [] pc = "detect" -> "group"
      [] pc = "group" -> "recognize"
      [] pc = "recognize" -> "done"
      [] OTHER -> "none"

\* what a step may do to task i: nothing; or pass from a stage that has
\* succeeded to the one after it (past recognition, to the end with a
\* value); or end at the stage it is in, with an error or a panic
StageStep(i) ==
    \/ tasks'[i] = tasks[i]
    \/ /\ tasks'[i].pc = StageAfter(tasks[i].pc)
       /\ tasks'[i].path = tasks[i].path
       /\ tasks[i].result = Pending
       /\ IF tasks'[i].pc = "done" THEN tasks'[i].result.tag = "Ok"
                                   ELSE tasks'[i].result = Pending
    \/ /\ tasks[i].pc \in {"decode", "prepare", "detect", "recognize"}
       /\ tasks[i].result = Pending
       /\ tasks'[i].pc = "done"
       /\ tasks'[i].path = tasks[i].path
       /\ tasks'[i].result.tag \in {"Err", "JoinError"}

\* a verdict is given only to the text of a task that ended with a value
SecretCheckStep ==
    \A k \in 1..Len(results) :
        ( /\ Len(results') = Len(results)
          /\ results'[k] # results[k] ) =>
            /\ tasks[origin[k]].pc = "done"
            /\ tasks[origin[k]].result.tag = "Ok"
            /\ results'[k].tag = "Ok"
            /\ results'[k].img.text = tasks[origin[k]].result.img.text
            /\ results'[k].img.has_secrets = detect_secrets(results'[k].img.text)

\* C13. The stages of an image run in the order decode, prepare, detect
\* words, group lines, recognize, secret check: a stage starts only when
\* the stage before it has succeeded, a stage that fails ends the image
\* (no later stage runs), and the secret check is run only on the text of
\* an image whose extraction succeeded.
StagesInOrder ==
    [][ /\ Len(tasks') >= Len(tasks)
        /\ \A i \in 1..Len(tasks) : StageStep(i)
        /\ SecretCheckStep ]_vars

\* a finished run: one image failed at word detection, another went through
\* every stage and its text was found to hold a secret
StagesInOrderWitness ==
    /\ mainpc = "done"
    /\ \E i \in 1..Len(tasks) :
          tasks[i].result.tag = "Err" /\ tasks[i].result.error = "DetectWords"
    /\ \E k \in 1..Len(results) :
          /\ results[k].tag = "Ok" /\ results[k].img.has_secrets
          /\ tasks[origin[k]].result.tag = "Ok"

\* loading a model file or constructing the engine has failed
LoadFailed == fatal \in {"detection_model", "recognition_model", "engine"}

\* C14. When loading either model file or constructing the engine fails,
\* the run ends with that error before any scanning: no image task is
\* spawned or started, no image is decoded, no Scanning line and no outcome
\* block is printed, then or later.
FatalBeforeScanning ==
    LoadFailed =>
        /\ mainpc = "fatal"
        /\ tasks = <<>>
        /\ results = <<>>
        /\ completed = <<>>
        /\ emitted = <<>>
        /\ \A p \in 1..Len(stdout) :
              stdout[p].kind \notin {"Scanning", "Success", "Failure"}

\* the engine could not be constructed although three images were found
FatalBeforeScanningWitness ==
    /\ fatal = "engine"
    /\ mainpc = "fatal"
    /\ Len(images) = 3

\* the count line is in the output
CountPrinted == \E p \in 1..Len(stdout) : stdout[p].kind = "Count"

\* the processing of an image has begun
ProcessingBegun == \E i \in 1..Len(tasks) : tasks[i].pc # "queued"

\* C15. Every run prints the count of the images found, and prints it
\* before the processing of any image begins: a run that has ended has
\* printed it, and no image is taken by a worker (no Scanning line, no
\* decode) before it is printed.
CountAlwaysPrinted ==
    /\ Ended => CountPrinted
    /\ ProcessingBegun => CountPrinted
    /\ \A p \in 1..Len(stdout) :
          stdout[p].kind = "Scanning" =>
              \E q \in 1..(p - 1) : stdout[q] = CountLine(Len(images))

\* C15 without 'every run' (not a claim): the count is printed, once and
\* with the number of images found, before any image is processed, and a
\* run that ends without it ended by the panic of the channel or by the
\* error of a model load
CountBeforeProcessing ==
    /\ ProcessingBegun => CountPrinted
    /\ tasks # <<>> => CountPrinted
    /\ \A p \in 1..Len(stdout) :
          /\ stdout[p].kind = "Scanning" =>
                \E q \in 1..(p - 1) : stdout[q] = CountLine(Len(images))
          /\ stdout[p].kind = "Count" =>
                /\ stdout[p].n = Len(images)
                /\ \A q \in 1..Len(stdout) : stdout[q].kind = "Count" => q = p
    /\ (Ended /\ ~CountPrinted) =>
          \/ mainpc = "panicked" /\ entries = <<>>
          \/ mainpc = "fatal" /\ LoadFailed

\* task i has ended, or is itself inside a call that never returns
Settled(i) == i <= Len(tasks) /\ tasks[i].pc \in {"done", "hung"}

\* C16. When the OCR call of one image never returns, only the worker of
\* that image is held: under the scheduling of the runtime every other
\* candidate is still taken by a worker and its processing ends.  (Stated
\* for runs whose models load, with one call that never returns and tasks
\* that do not panic.)
HangBlocksOneSlot ==
    <>( \/ LoadFailed
        \/ PanickedTasks # {}
        \/ Cardinality(HungTasks) > 1
        \/ /\ Len(tasks) = Len(images)
           /\ \A i \in 1..Len(tasks) : Settled(i) )

\* the first image taken is inside a call that never returns, and the two
\* other candidates, taken after it, have both ended
HangBlocksOneSlotWitness ==
    /\ Len(tasks) = 3
    /\ \E h \in 1..3 :
          /\ tasks[h].pc = "hung"
          /\ \E p \in 1..Len(stdout) :
                /\ stdout[p] = ScanningLine(tasks[h].path)
                /\ \A q \in 1..(p - 1) : stdout[q].kind # "Scanning"
          /\ \A i \in 1..3 : i # h => tasks[i].pc = "done"
    /\ Len(completed) = 2

\* the filter tasks created so far
FilterTasks == { k \in 1..Len(fpc) : fpc[k] # "unspawned" }

\* C17. Discovery has a fixed concurrency cap: the tasks created to filter
\* the entries are never more than a constant that does not depend on the
\* number of entries (here the size of the worker pool), and with more than
\* one entry they are fewer than the entries.
DiscoveryIsCapped ==
    /\ Cardinality(FilterTasks) <= NumWorkers
    /\ Len(entries) > 1 => Cardinality(FilterTasks) < Len(entries)

\* what the code does instead (not a claim): once the spawn loop is over
\* there is one task for each entry, whatever their number; what is capped
\* by the worker pool is the number of them running at a time
OneTaskPerEntry ==
    /\ mainpc \notin {"start", "walk", "channel", "spawn_filters", "panicked"} =>
          Cardinality(FilterTasks) = Len(entries)
    /\ Cardinality(RunningFilters) <= NumWorkers

\* C18. The wait on the image tasks fails fast on a panic: once a task has
\* panicked the report loop is never entered and no outcome block is
\* printed for any image, extracted or not, and main can only end with the
\* join error.
PanicIsFatal ==
    PanickedTasks # {} =>
        /\ mainpc \in {"spawn_images", "join", "fatal"}
        /\ mainpc = "fatal" => fatal = "JoinError"
        /\ mainpc = "join" => ENABLED JoinFails
        /\ results = <<>>
        /\ emitted = <<>>
        /\ OutcomeBlocks = <<>>

\* main has ended with the join error although another image had been
\* extracted before the panic, and a third was still being processed
PanicIsFatalWitness ==
    /\ mainpc = "fatal"
    /\ fatal = "JoinError"
    /\ Len(completed) = 2
    /\ tasks[completed[1]].result.tag = "Ok"
    /\ tasks[completed[2]].result.tag = "JoinError"
    /\ \E i \in 1..Len(tasks) : tasks[i].pc \in {"decode", "prepare", "detect"}

\* the report has begun: a result is out of the wait, or a block is printed
ReportBegun ==
    \/ mainpc \in {"report", "done"}
    \/ results # <<>> \/ ri > 0
    \/ OutcomeBlocks # <<>> \/ emitted # <<>>

\* C19. Reporting is behind a barrier: no outcome block is printed and no
\* secret check is run before every image task of the batch has ended; the
\* workers never run the secret check (the value a task returns has no
\* verdict), and the verdicts are given one at a time by main, in the
\* order of its loop.
ReportBehindBarrier ==
    /\ ReportBegun =>
          /\ Len(tasks) = Len(images)
          /\ \A i \in 1..Len(tasks) : tasks[i].pc = "done"
    /\ \A i \in 1..Len(tasks) : ~tasks[i].result.img.has_secrets
    /\ \A k \in 1..Len(results) :
          (results[k].tag = "Ok" /\ results[k].img.has_secrets) => k <= ri
    /\ Len(OutcomeBlocks) = ri

\* main is in the report loop after the first of three images: the first
\* has its verdict, the second holds a secret and has no verdict yet
ReportBehindBarrierWitness ==
    /\ mainpc = "report"
    /\ ri = 1
    /\ Len(tasks) = 3
    /\ results[1].tag = "Ok" /\ results[1].img.has_secrets
    /\ results[2].tag = "Ok" /\ ~results[2].img.has_secrets
    /\ detect_secrets(results[2].img.text)

\* the paths the filter tasks have sent
SentPaths ==
    { entries[k] : k \in { j \in 1..Len(fpc) :
                             fpc[j] = "done" /\ HasImageExtension(tree, entries[j]) } }

\* the receiver is alive: the locator has created it and has not returned
ReceiverAlive == mainpc \in {"spawn_filters", "recv"}

FanInSafe ==
    \* the buffer has room for a path per entry, and never holds more
    /\ ReceiverAlive => Capacity = Len(entries)
    /\ Len(chan) <= Len(entries)
    \* a send never waits for room and never finds the receiver gone
    /\ \A k \in 1..Len(fpc) :
          /\ fpc[k] = "sending" => ENABLED SendPath(k)
          /\ fpc[k] \in {"ready", "sending"} => ReceiverAlive
    \* every path sent is in the buffer or received, once
    /\ Range(chan) \cup Range(images) = SentPaths
    /\ Len(chan) + Len(images) = Cardinality(SentPaths)
    \* the receive loop has ended only with every sender dropped
    /\ LocatorReturned =>
          /\ ~txMain
          /\ \A k \in 1..Len(fpc) : fpc[k] = "done"
          /\ chan = <<>>
          /\ Range(images) = SentPaths

\* C20. The fan-in of discovery ends and loses nothing: with a non-empty
\* entry list the buffer has room for a path per entry, so no filter task
\* waits or fails on its send while the receiver is alive; the receive loop
\* ends only when the original sender and every clone are dropped; under
\* fair scheduling the locator returns, with every path that was sent.
FanInTerminates ==
    /\ [](FanInSafe)
    /\ (mainpc = "channel" /\ entries # <<>>) ~> LocatorReturned

\* the buffer is full: it holds a path for each of three entries
FanInTerminatesWitness ==
    /\ mainpc = "recv"
    /\ Len(entries) = 3
    /\ Len(chan) = Len(entries)

==========================================================================
